---- MODULE Spec2Model ----
(***************************************************************************)
(* A model of the Gnosis spreadsheet manager (src/gnosis.py): a sheet of   *)
(* daily statistics, one row per calendar day below a header row, one      *)
(* column per statistic right of a label column.                           *)
(*                                                                         *)
(* Dates are proleptic Gregorian ordinals (datetime.date.toordinal()).     *)
(* A cell's text is a record: [s |-> "..."] for ordinary text, and         *)
(* [wd, mm, dd, yy] for a text of the shape "Thu, 06/01/17" (TIME_FMT).    *)
(* The sheet is the sequence of its rows, each a sequence of cell texts.   *)
(* A request that addresses a cell outside the grid is rejected by the     *)
(* Sheet: the call raises (status "SheetError").                           *)
(***************************************************************************)
EXTENDS Integers, Sequences, FiniteSets, TLC

VARIABLES
    sheet,        \* the backing grid (self._sheet): a sequence of rows
    start_date,   \* self._start_date
    end_date,     \* self._end_date
    stat_to_col,  \* self._stat_to_col
    last,         \* the last call: its arguments, its outcome, the state it ran on
    calls         \* number of calls made so far

vars == <<sheet, start_date, end_date, stat_to_col, last, calls>>

---------------------------------------------------------------------------
(* Program constants *)

INITIALIZER == [s |-> "START"]
TIME_FMT == "%a, %m/%d/%y"
LABEL_ROW == 1
LABEL_COL == 1
DATA_START_ROW == 2
DATA_START_COL == 2
MaxNewRows == 1000

(* Bounds of the model *)

MaxInitRows == 3     \* data rows of the sheet handed to the constructor
MaxInitStats == 2    \* statistic columns of that sheet
MaxRows == 5         \* no call is started that could grow the grid past this
MaxCols == 4
MaxGap == 2          \* how far outside the cached range an input date lies
MaxDrift == 3        \* how far the cached start may move before the first day
MaxCalls == 2        \* calls made on one manager

MaxTrimRows == 3  \* rows and columns of the grids handed to _trim alone
MaxTrimCols == 3

BaseDate == 736481   \* 2017-06-01, the first day of the constructed sheets

\* the element of a one-element set: Only({F(x) : x \in {e}}) is F(e) with e
\* evaluated once
Only(S) == CHOOSE x \in S : TRUE

Text(str) == [s |-> str]
EmptyText == Text("")
Names == {Text("Steps"), Text("Sleep")}
Values == {Text("120")}

---------------------------------------------------------------------------
(* datetime.date: civil calendar <-> ordinal *)

WeekdayNames == <<"Mon", "Tue", "Wed", "Thu", "Fri", "Sat", "Sun">>

IsLeap(y) == (y % 4 = 0 /\ y % 100 # 0) \/ y % 400 = 0

DaysInMonth(y, m) ==
    IF m = 2 THEN (IF IsLeap(y) THEN 29 ELSE 28)
    ELSE IF m \in {4, 6, 9, 11} THEN 30 ELSE 31

\* date(y, m, d).toordinal()
ToOrdinal(y, m, d) ==
    LET yy  == IF m <= 2 THEN y - 1 ELSE y
        era == yy \div 400
        yoe == yy - era * 400
        mp  == IF m > 2 THEN m - 3 ELSE m + 9
        doy == (153 * mp + 2) \div 5 + d - 1
        doe == yoe * 365 + yoe \div 4 - yoe \div 100 + doy
    IN  era * 146097 + doe - 305

\* date.fromordinal(n) as [y, m, d], in stages: the day of the 400-year
\* era, the year of the era, the day of the year counted from 1 March, the
\* month counted from March
FromMonthIndex(y0, doy, mp) ==
    [y |-> y0 + (IF mp >= 10 THEN 1 ELSE 0),
     m |-> IF mp < 10 THEN mp + 3 ELSE mp - 9,
     d |-> doy - (153 * mp + 2) \div 5 + 1]

FromDayOfYear(y0, doy) == FromMonthIndex(y0, doy, (5 * doy + 2) \div 153)

FromYearOfEra(era, doe, yoe) ==
    FromDayOfYear(yoe + era * 400,
                  doe - (365 * yoe + yoe \div 4 - yoe \div 100))

FromDayOfEra(era, doe) ==
    FromYearOfEra(era, doe,
        (doe - doe \div 1460 + doe \div 36524 - doe \div 146096) \div 365)

FromOrdinal(n) == FromDayOfEra((n + 305) \div 146097, (n + 305) % 146097)

\* date.weekday(): Monday is 0
Weekday(n) == (n + 6) % 7

---------------------------------------------------------------------------
(* Gnosis._to_date_str / Gnosis._parse_date with TIME_FMT '%a, %m/%d/%y' *)

IsDateShaped(text) == DOMAIN text = {"wd", "mm", "dd", "yy"}

\* strftime: the weekday name, month, day and the year modulo 100
FormatDate(a_date, civil) ==
    [wd |-> WeekdayNames[Weekday(a_date) + 1],
     mm |-> civil.m, dd |-> civil.d, yy |-> civil.y % 100]

ToDateStr(a_date) == FormatDate(a_date, FromOrdinal(a_date))

\* strptime's %y: 69..99 are 1969..1999 and 0..68 are 2000..2068
PivotYear(yy) == IF yy < 69 THEN 2000 + yy ELSE 1900 + yy

\* the texts strptime's %a accepts: a weekday name of WeekdayNames in any mix
\* of upper and lower case
WeekdaySpellings ==
    {"MON", "MOn", "MoN", "Mon", "mON", "mOn", "moN", "mon",
     "TUE", "TUe", "TuE", "Tue", "tUE", "tUe", "tuE", "tue",
     "WED", "WEd", "WeD", "Wed", "wED", "wEd", "weD", "wed",
     "THU", "THu", "ThU", "Thu", "tHU", "tHu", "thU", "thu",
     "FRI", "FRi", "FrI", "Fri", "fRI", "fRi", "frI", "fri",
     "SAT", "SAt", "SaT", "Sat", "sAT", "sAt", "saT", "sat",
     "SUN", "SUn", "SuN", "Sun", "sUN", "sUn", "suN", "sun"}

\* strptime succeeds: the text has the shape, names a weekday in any case
\* (not compared with the date) and a day that exists
CanParse(text) ==
    /\ IsDateShaped(text)
    /\ text.wd \in WeekdaySpellings
    /\ text.yy \in 0..99
    /\ text.mm \in 1..12
    /\ text.dd \in 1..DaysInMonth(PivotYear(text.yy), text.mm)

ParseDate(text) == ToOrdinal(PivotYear(text.yy), text.mm, text.dd)

---------------------------------------------------------------------------
(* The Sheet collaborator (gspread Worksheet), as the manager uses it *)

row_count(sh) == Len(sh)
col_count(sh) == Len(sh[1])

InGrid(sh, row, col) == row \in 1..row_count(sh) /\ col \in 1..col_count(sh)

EmptyRow(cols) == [c \in 1..cols |-> EmptyText]

\* update_cell(row, col, val), for a cell of the grid
UpdateCell(sh, row, col, val) == [sh EXCEPT ![row][col] = val]

\* add_rows(n): n empty rows below the last one
AddRows(sh, n) == sh \o [i \in 1..n |-> EmptyRow(col_count(sh))]

\* add_cols(n): n empty columns right of the last one
AddCols(sh, n) == [r \in 1..row_count(sh) |-> sh[r] \o EmptyRow(n)]

\* insert_row(values, index): the rows from index on move down by one; the
\* new row holds the values, then empty cells
InsertRow(sh, values, index) ==
    LET new_row == [c \in 1..col_count(sh) |->
                       IF c <= Len(values) THEN values[c] ELSE EmptyText]
    IN  SubSeq(sh, 1, index - 1) \o <<new_row>> \o SubSeq(sh, index, row_count(sh))

\* resize(rows, cols)
Resize(sh, rows, cols) ==
    [r \in 1..rows |-> [c \in 1..cols |->
        IF InGrid(sh, r, c) THEN sh[r][c] ELSE EmptyText]]

---------------------------------------------------------------------------
(* Gnosis: construction *)

\* the loops of _trim: from the far end towards index 1, stop at the first
\* non-empty label
RECURSIVE LastUsed(_, _)
LastUsed(labels, i) ==
    IF labels[i] # EmptyText \/ i = 1 THEN i ELSE LastUsed(labels, i - 1)

ColValues(sh, col) == [r \in 1..row_count(sh) |-> sh[r][col]]
RowValues(sh, row) == sh[row]

\* _trim that removes unused rows and keeps every column
TrimRowsOnly(sh) ==
    Resize(sh, LastUsed(ColValues(sh, LABEL_COL), row_count(sh)), col_count(sh))

Trim(sh) ==
    Resize(sh, LastUsed(ColValues(sh, LABEL_COL), row_count(sh)),
               LastUsed(RowValues(sh, LABEL_ROW), col_count(sh)))

\* the dict comprehension of __init__: the i-th header cell right of the
\* label column, counted from 1, is given column DATA_START_COL + i
BuildStatToCol(sh) ==
    LET n == col_count(sh) - DATA_START_COL + 1
        label_cells == [i \in 1..n |-> sh[LABEL_ROW][DATA_START_COL + i - 1]]
        keys == {label_cells[i] : i \in 1..n}
        LastIndex(k) == CHOOSE i \in 1..n :
                            /\ label_cells[i] = k
                            /\ \A j \in 1..n : label_cells[j] = k => j <= i
    IN  [k \in keys |-> DATA_START_COL + LastIndex(k)]

\* _get_date(row), for a row of the grid whose label parses
GetDate(sh, row) == ParseDate(sh[row][LABEL_COL])

\* __init__ after _trim, on the trimmed sheet
Index(sh) ==
    [sheet |-> sh,
     stat_to_col |-> BuildStatToCol(sh),
     start_date |-> GetDate(sh, DATA_START_ROW),
     end_date |-> GetDate(sh, row_count(sh))]

\* __init__ after _trim can finish: its reads lie in the grid and both
\* labels parse
CanIndex(sh) ==
    /\ col_count(sh) >= DATA_START_COL
    /\ row_count(sh) >= DATA_START_ROW
    /\ CanParse(sh[DATA_START_ROW][LABEL_COL])
    /\ CanParse(sh[row_count(sh)][LABEL_COL])

CanConstruct(raw) == CanIndex(Trim(raw))

\* __init__
Construct(raw) == Index(Trim(raw))

---------------------------------------------------------------------------
(* Gnosis: date <-> row *)

GetApproxDate(sd, row) == sd + (row - DATA_START_ROW)

\* _get_row with the last day of the range left out
GetRowExclusiveEnd(sd, ed, a_date) ==
    LET delta == a_date - sd
    IN  IF a_date >= ed \/ a_date < sd
        THEN [status |-> "ValueError", row |-> 0]
        ELSE [status |-> "ok", row |-> DATA_START_ROW + delta]

\* _get_row: [status, row]
GetRow(sd, ed, a_date) ==
    LET delta == a_date - sd
    IN  IF a_date > ed \/ a_date < sd
        THEN [status |-> "ValueError", row |-> 0]
        ELSE [status |-> "ok", row |-> DATA_START_ROW + delta]

Abs(n) == IF n < 0 THEN 0 - n ELSE n

\* the prepend loop: offsets offset..stop-1 in increasing order, each row
\* inserted at index 2
RECURSIVE InsertBefore(_, _, _, _)
InsertBefore(sh, closest_date, offset, stop) ==
    IF offset >= stop THEN sh
    ELSE InsertBefore(InsertRow(sh, <<ToDateStr(closest_date - offset)>>, 2),
                      closest_date, offset + 1, stop)

\* the append loop: new_cells[ind] is the cell of row first_row + ind; the
\* ind-th offset (from 0) is ind + 1
RECURSIVE WriteAfter(_, _, _, _, _)
WriteAfter(sh, closest_date, first_row, ind, stop) ==
    IF ind + 1 >= stop THEN sh
    ELSE WriteAfter(UpdateCell(sh, first_row + ind, LABEL_COL,
                               ToDateStr(closest_date + (ind + 1))),
                    closest_date, first_row, ind + 1, stop)

TooManyRows(rows_to_create) == rows_to_create > MaxNewRows

\* what _get_or_create_row leaves behind: [status, row, sheet, start_date,
\* end_date]; row is 0 when the call raises
RowResult(status, row, sh, sd, ed) ==
    [status |-> status, row |-> row, sheet |-> sh,
     start_date |-> sd, end_date |-> ed]

\* the final _get_row(a_date) of _get_or_create_row
Resolve(sh, sd, ed, a_date) ==
    RowResult(GetRow(sd, ed, a_date).status, GetRow(sd, ed, a_date).row,
              sh, sd, ed)

\* the branch create_before: insert the rows, move the cached start
PrependRows(sh, sd, ed, a_date, rows_to_create) ==
    Resolve(InsertBefore(sh, sd, 1, rows_to_create), a_date, ed, a_date)

\* the other branch, after add_rows: base_row is read from the grown grid;
\* the range A<base_row + 1>:A<base_row + rows_to_create> is fetched, its
\* cells are written, the cached end moves
AppendLabels(sh, sd, ed, a_date, rows_to_create, base_row) ==
    IF ~(InGrid(sh, base_row + 1, LABEL_COL)
         /\ InGrid(sh, base_row + rows_to_create, LABEL_COL))
    THEN RowResult("SheetError", 0, sh, sd, ed)
    ELSE Resolve(WriteAfter(sh, ed, base_row + 1, 0, rows_to_create),
                 sd, a_date, a_date)

AppendRows(sh, sd, ed, a_date, rows_to_create) ==
    AppendLabels(AddRows(sh, rows_to_create), sd, ed, a_date, rows_to_create,
                 row_count(AddRows(sh, rows_to_create)))

\* the except branch with the cached bound moved before the cap is checked
CreateRowsCheckedLate(sh, sd, ed, a_date, create_before, rows_to_create) ==
    IF TooManyRows(rows_to_create)
    THEN RowResult("ValueError", 0, sh,
                   IF create_before THEN a_date ELSE sd,
                   IF create_before THEN ed ELSE a_date)
    ELSE IF create_before THEN PrependRows(sh, sd, ed, a_date, rows_to_create)
    ELSE AppendRows(sh, sd, ed, a_date, rows_to_create)

\* the except branch of _get_or_create_row
CreateRows(sh, sd, ed, a_date, create_before, rows_to_create) ==
    IF TooManyRows(rows_to_create) THEN RowResult("ValueError", 0, sh, sd, ed)
    ELSE IF create_before THEN PrependRows(sh, sd, ed, a_date, rows_to_create)
    ELSE AppendRows(sh, sd, ed, a_date, rows_to_create)

\* _get_or_create_row
GetOrCreateRow(sh, sd, ed, a_date) ==
    IF GetRow(sd, ed, a_date).status = "ok"
    THEN RowResult("ok", GetRow(sd, ed, a_date).row, sh, sd, ed)
    ELSE CreateRows(sh, sd, ed, a_date, a_date < sd,
                    Abs(a_date - (IF a_date < sd THEN sd ELSE ed)))

---------------------------------------------------------------------------
(* Gnosis: statistics *)

\* _get_stat_col: [status, col]
GetStatCol(idx, stat_name) ==
    IF stat_name \in DOMAIN idx
    THEN [status |-> "ok", col |-> idx[stat_name]]
    ELSE [status |-> "ValueError", col |-> 0]

\* _get_coords that lets a date outside the range through
GetCoordsAnyDate(sd, ed, idx, stat_name, a_date) ==
    LET c == GetStatCol(idx, stat_name)
    IN  IF c.status # "ok" THEN [status |-> c.status, row |-> 0, col |-> 0]
        ELSE [status |-> "ok", row |-> DATA_START_ROW + (a_date - sd),
              col |-> c.col]

\* _get_coords: the row is resolved first, then the column
GetCoords(sd, ed, idx, stat_name, a_date) ==
    LET r == GetRow(sd, ed, a_date)
        c == GetStatCol(idx, stat_name)
    IN  IF r.status # "ok" THEN [status |-> r.status, row |-> 0, col |-> 0]
        ELSE IF c.status # "ok" THEN [status |-> c.status, row |-> 0, col |-> 0]
        ELSE [status |-> "ok", row |-> r.row, col |-> c.col]

\* what add_stat_series leaves behind
StatResult(status, sh, made, idx) ==
    [status |-> status, sheet |-> sh, start_date |-> made.start_date,
     end_date |-> made.end_date, stat_to_col |-> idx]

\* the end of add_stat_series: the initializer goes into the row made
WriteInitializer(made, added_col, idx) ==
    IF made.status # "ok" THEN StatResult(made.status, made.sheet, made, idx)
    ELSE IF ~InGrid(made.sheet, made.row, added_col)
    THEN StatResult("SheetError", made.sheet, made, idx)
    ELSE StatResult("ok",
                    UpdateCell(made.sheet, made.row, added_col, INITIALIZER),
                    made, idx)

\* the start of add_stat_series: the new column, its header, its index entry
AddHeader(sh, added_col, stat_name) ==
    UpdateCell(sh, LABEL_ROW, added_col, stat_name)

AddIndex(idx, stat_name, added_col) ==
    [k \in DOMAIN idx \cup {stat_name} |->
        IF k = stat_name THEN added_col ELSE idx[k]]

\* add_stat_series, called on the day `today`:
\* [status, sheet, start_date, end_date, stat_to_col]
AddStatSeries(sh, sd, ed, idx, stat_name, today) ==
    Only({WriteInitializer(made, col_count(AddCols(sh, 1)),
                           AddIndex(idx, stat_name, col_count(AddCols(sh, 1)))) :
          made \in {GetOrCreateRow(AddHeader(AddCols(sh, 1),
                                             col_count(AddCols(sh, 1)),
                                             stat_name),
                                   sd, ed, today - 1)}})

\* update_stat: [status, sheet]
UpdateStat(sh, sd, ed, idx, stat_name, a_date, updated_val) ==
    LET at == GetCoords(sd, ed, idx, stat_name, a_date)
    IN  IF at.status # "ok" THEN [status |-> at.status, sheet |-> sh]
        ELSE IF ~InGrid(sh, at.row, at.col)
        THEN [status |-> "SheetError", sheet |-> sh]
        ELSE [status |-> "ok",
              sheet |-> UpdateCell(sh, at.row, at.col, updated_val)]

\* self._sheet.cell(row, col): the Cell object of a cell of the grid
CellAt(sh, row, col) == [row |-> row, col |-> col, value |-> sh[row][col]]

\* get_stat: [status, ret]; what is returned is the Cell
GetStat(sh, sd, ed, idx, stat_name, a_date) ==
    LET at == GetCoords(sd, ed, idx, stat_name, a_date)
    IN  IF at.status # "ok" THEN [status |-> at.status, ret |-> EmptyText]
        ELSE IF ~InGrid(sh, at.row, at.col)
        THEN [status |-> "SheetError", ret |-> EmptyText]
        ELSE [status |-> "ok", ret |-> CellAt(sh, at.row, at.col)]

\* the loop of _stat_iter over the values of a column, from row 1
RECURSIVE StatScan(_, _, _, _, _)
StatScan(values, sd, row, has_started, acc) ==
    IF row > Len(values) THEN acc
    ELSE StatScan(values, sd, row + 1,
                  has_started \/ values[row] = INITIALIZER,
                  IF has_started
                  THEN Append(acc, [date |-> GetApproxDate(sd, row),
                                    value |-> values[row]])
                  ELSE acc)

\* _stat_iter, run to its end: [status, entries]
StatIter(sh, sd, idx, stat_name) ==
    LET c == GetStatCol(idx, stat_name)
    IN  IF c.status # "ok" THEN [status |-> c.status, entries |-> <<>>]
        ELSE IF ~InGrid(sh, row_count(sh), c.col)
        THEN [status |-> "SheetError", entries |-> <<>>]
        ELSE [status |-> "ok",
              entries |-> StatScan(ColValues(sh, c.col), sd, 1, FALSE, <<>>)]

\* get_stat_series: [status, ret]
GetStatSeries(sh, sd, idx, stat_name) ==
    LET it == StatIter(sh, sd, idx, stat_name)
    IN  [status |-> it.status, ret |-> it.entries]

\* get_stat_start: [status, ret]; next() of an exhausted iterator raises
GetStatStart(sh, sd, idx, stat_name) ==
    LET it == StatIter(sh, sd, idx, stat_name)
    IN  IF it.status # "ok" THEN [status |-> it.status, ret |-> 0]
        ELSE IF it.entries = <<>> THEN [status |-> "StopIteration", ret |-> 0]
        ELSE [status |-> "ok", ret |-> it.entries[1].date]

---------------------------------------------------------------------------
(* Gnosis: fix_labels *)

NoRun == [start_row |-> 0, start_date |-> "None", length |-> 0]

\* the scan of fix_labels from row row_ind on. A run is a tuple, so the
\* first label that parses ends the scan with a TypeError (line 80).
RECURSIVE ScanRuns(_, _, _, _)
ScanRuns(labels, row_ind, longest_run, current_run) ==
    IF row_ind > Len(labels)
    THEN [status |-> "ok", longest_run |-> longest_run, line |-> 0]
    ELSE IF row_ind <= DATA_START_ROW
    THEN ScanRuns(labels, row_ind + 1, longest_run, current_run)
    ELSE IF ~CanParse(labels[row_ind])
    THEN ScanRuns(labels, row_ind + 1,
                  IF current_run.length > longest_run.length
                  THEN current_run ELSE longest_run,
                  NoRun)
    ELSE [status |-> "TypeError", longest_run |-> longest_run,
          line |-> IF current_run.length = 0 THEN 80 ELSE 82]

\* fix_labels: [status, sheet, line]. When the scan ends, reversed() of a
\* generator raises a TypeError (line 88) before any label is written.
FixLabels(sh) ==
    LET scan == ScanRuns(ColValues(sh, LABEL_COL), 1, NoRun, NoRun)
    IN  IF scan.status # "ok"
        THEN [status |-> scan.status, sheet |-> sh, line |-> scan.line]
        ELSE [status |-> "TypeError", sheet |-> sh, line |-> 88]

---------------------------------------------------------------------------
(* The state machine *)

\* the sheets handed to the constructor: `rows` data rows labelled with
\* consecutive days from BaseDate, the statistics of `header`, each empty or
\* started on the first day, and `er` / `ec` unused trailing rows / columns
MakeRaw(rows, header, started, er, ec) ==
    [r \in 1..(1 + rows + er) |-> [c \in 1..(1 + Len(header) + ec) |->
        IF r > 1 + rows \/ c > 1 + Len(header) THEN EmptyText
        ELSE IF r = LABEL_ROW THEN (IF c = LABEL_COL THEN EmptyText ELSE header[c - 1])
        ELSE IF c = LABEL_COL THEN ToDateStr(BaseDate + (r - DATA_START_ROW))
        ELSE IF ~started THEN EmptyText
        ELSE IF r = DATA_START_ROW THEN INITIALIZER
        ELSE Text("120")]]

Headers ==
    {h \in UNION {[1..k -> Names] : k \in 1..MaxInitStats} :
        \A i, j \in DOMAIN h : h[i] = h[j] => i = j}

RawSheets ==
    {MakeRaw(rows, header, started, er, ec) :
        rows \in 1..MaxInitRows, header \in Headers, started \in BOOLEAN,
        er \in 0..1, ec \in 0..1}

Pre == [sheet |-> sheet, start_date |-> start_date, end_date |-> end_date,
        stat_to_col |-> stat_to_col]

Call(op, name, date, val, status, ret, pre) ==
    [op |-> op, name |-> name, date |-> date, val |-> val,
     status |-> status, ret |-> ret, pre |-> pre]

\* dates a caller passes: around the cached range, or beyond the row cap
NearDates == {d \in (start_date - MaxGap)..(end_date + MaxGap) :
                 d >= BaseDate - MaxDrift}
FarDates == {start_date - (MaxNewRows + 1), end_date + (MaxNewRows + 1)}

Constructed(raw, g) ==
    /\ sheet = g.sheet
    /\ start_date = g.start_date
    /\ end_date = g.end_date
    /\ stat_to_col = g.stat_to_col
    /\ last = Call("__init__", EmptyText, 0, EmptyText, "ok", 0,
                   [sheet |-> raw, start_date |-> 0, end_date |-> 0,
                    stat_to_col |-> <<>>])
    /\ calls = 0

Init == \E raw \in RawSheets : CanConstruct(raw) /\ Constructed(raw, Construct(raw))

\* a call returns or raises: the manager's new state, and the record of the
\* call
Return(op, name, date, val, status, ret, sh, sd, ed, idx) ==
    /\ sheet' = sh
    /\ start_date' = sd
    /\ end_date' = ed
    /\ stat_to_col' = idx
    /\ last' = Call(op, name, date, val, status, ret, Pre)
    /\ calls' = calls + 1

\* a call that reads only returns or raises
Answer(op, name, date, status, ret) ==
    Return(op, name, date, EmptyText, status, ret,
           sheet, start_date, end_date, stat_to_col)

AnswerOf(op, name, date, r) == Answer(op, name, date, r.status, r.ret)

DoGetRow ==
    /\ calls < MaxCalls
    /\ \E a_date \in NearDates :
        \E r \in {GetRow(start_date, end_date, a_date)} :
            Answer("_get_row", EmptyText, a_date, r.status, r.row)

ReturnRow(a_date, r) ==
    /\ a_date \in FarDates \/ row_count(r.sheet) <= MaxRows
    /\ Return("_get_or_create_row", EmptyText, a_date, EmptyText,
              r.status, r.row, r.sheet, r.start_date, r.end_date, stat_to_col)

DoGetOrCreateRow ==
    /\ calls < MaxCalls
    /\ \E a_date \in NearDates \cup FarDates :
        \E r \in {GetOrCreateRow(sheet, start_date, end_date, a_date)} :
            ReturnRow(a_date, r)

ReturnAdded(stat_name, today, r) ==
    /\ (today - 1) \in FarDates \/ row_count(r.sheet) <= MaxRows
    /\ Return("add_stat_series", stat_name, today, EmptyText, r.status, 0,
              r.sheet, r.start_date, r.end_date, r.stat_to_col)

DoAddStatSeries ==
    /\ calls < MaxCalls
    /\ col_count(sheet) < MaxCols
    /\ \E stat_name \in Names, yesterday \in NearDates \cup FarDates :
          \E r \in {AddStatSeries(sheet, start_date, end_date, stat_to_col,
                                    stat_name, yesterday + 1)} :
               ReturnAdded(stat_name, yesterday + 1, r)

ReturnUpdated(stat_name, a_date, updated_val, r) ==
    Return("update_stat", stat_name, a_date, updated_val, r.status, 0,
           r.sheet, start_date, end_date, stat_to_col)

DoUpdateStat ==
    /\ calls < MaxCalls
    /\ \E stat_name \in Names, a_date \in (start_date - 1)..(end_date + 1),
       updated_val \in Values :
        \E r \in {UpdateStat(sheet, start_date, end_date, stat_to_col,
                              stat_name, a_date, updated_val)} :
            ReturnUpdated(stat_name, a_date, updated_val, r)

DoGetStat ==
    /\ calls < MaxCalls
    /\ \E stat_name \in Names, a_date \in (start_date - 1)..(end_date + 1) :
        \E r \in {GetStat(sheet, start_date, end_date, stat_to_col,
                           stat_name, a_date)} :
            AnswerOf("get_stat", stat_name, a_date, r)

DoGetStatSeries ==
    /\ calls < MaxCalls
    /\ \E stat_name \in Names :
        \E r \in {GetStatSeries(sheet, start_date, stat_to_col, stat_name)} :
            AnswerOf("get_stat_series", stat_name, 0, r)

DoGetStatStart ==
    /\ calls < MaxCalls
    /\ \E stat_name \in Names :
        \E r \in {GetStatStart(sheet, start_date, stat_to_col, stat_name)} :
            AnswerOf("get_stat_start", stat_name, 0, r)

Next ==
    \/ DoGetRow
    \/ DoGetOrCreateRow
    \/ DoAddStatSeries
    \/ DoUpdateStat
    \/ DoGetStat
    \/ DoGetStatSeries
    \/ DoGetStatStart

Spec == Init /\ [][Next]_vars

---------------------------------------------------------------------------
(* fix_labels on a sheet whose labels were edited from outside *)

\* texts an outside edit leaves in a label cell: nothing, a note, a day that
\* does not exist, a day that is out of sequence, a day typed with a
\* lower-case weekday name
EditTexts ==
    {EmptyText, Text("n/a"), [wd |-> "Thu", mm |-> 2, dd |-> 30, yy |-> 17],
     ToDateStr(BaseDate + 40), [wd |-> "fri", mm |-> 6, dd |-> 2, yy |-> 17]}

ExternalEdit ==
    \E row \in DATA_START_ROW..row_count(sheet), text \in EditTexts :
        /\ sheet' = UpdateCell(sheet, row, LABEL_COL, text)
        /\ last' = Call("external_edit", EmptyText, 0, text, "ok", row, Pre)
        /\ UNCHANGED <<start_date, end_date, stat_to_col, calls>>

DoFixLabels ==
    /\ calls < MaxCalls
    /\ \E r \in {FixLabels(sheet)} :
           Return("fix_labels", EmptyText, 0, EmptyText, r.status, r.line,
                  r.sheet, start_date, end_date, stat_to_col)

NextFix == ExternalEdit \/ DoFixLabels

SpecFix == Init /\ [][NextFix]_vars

---------------------------------------------------------------------------
(* _trim on any grid: each cell is empty or holds a text *)

TrimGrids ==
    UNION {[1..rows -> [1..cols -> {EmptyText, Text("x")}]] :
              rows \in 1..MaxTrimRows, cols \in 1..MaxTrimCols}

InitTrim ==
    /\ sheet \in TrimGrids
    /\ start_date = 0
    /\ end_date = 0
    /\ stat_to_col = <<>>
    /\ last = Call("open", EmptyText, 0, EmptyText, "ok", 0,
                   [sheet |-> sheet, start_date |-> 0, end_date |-> 0,
                    stat_to_col |-> <<>>])
    /\ calls = 0

DoTrim ==
    /\ calls < MaxCalls
    /\ \E r \in {Trim(sheet)} :
           Return("_trim", EmptyText, 0, EmptyText, "ok", 0,
                  r, start_date, end_date, stat_to_col)

NextTrim == DoTrim

SpecTrim == InitTrim /\ [][NextTrim]_vars

---------------------------------------------------------------------------
(* Properties *)

Label(sh, row) == sh[row][LABEL_COL]
DataRows(sh) == DATA_START_ROW..row_count(sh)
InPreRange(a_date) ==
    last.pre.start_date <= a_date /\ a_date <= last.pre.end_date
Unchanged ==
    /\ sheet = last.pre.sheet
    /\ start_date = last.pre.start_date
    /\ end_date = last.pre.end_date
    /\ stat_to_col = last.pre.stat_to_col

\* C1: after construction and after every get_or_create_row or
\* add_stat_series call, data row r holds the label of start_date + (r - 2)
\* days and the last row holds the label of the cached end_date.
C1_LabelsFollowRange ==
    last.op \in {"__init__", "_get_or_create_row", "add_stat_series"} =>
        /\ \A r \in DataRows(sheet) :
               Label(sheet, r) = ToDateStr(start_date + (r - DATA_START_ROW))
        /\ Label(sheet, row_count(sheet)) = ToDateStr(end_date)

\* C2: row_for_date(d) is 2 + (d - start_date) days for d in the cached
\* range, approx_date_for_row takes that row back to d, and a date outside
\* the range is refused.
C2_RowForDate ==
    last.op = "_get_row" =>
        IF start_date <= last.date /\ last.date <= end_date
        THEN /\ last.status = "ok"
             /\ last.ret = 2 + (last.date - start_date)
             /\ GetApproxDate(start_date, last.ret) = last.date
        ELSE last.status = "ValueError"

C2_Witness ==
    /\ last.op = "_get_row"
    /\ last.status = "ok"
    /\ last.date = end_date
    /\ last.ret > DATA_START_ROW

\* C3: get_or_create_row(d) for d outside the range and within 1000 days of
\* it returns a row, leaves d inside the cached range, and a second call
\* with d returns the same row and changes neither the grid nor the range.
C3_CreateIsIdempotent ==
    (/\ last.op = "_get_or_create_row"
     /\ ~InPreRange(last.date)
     /\ last.date >= last.pre.start_date - MaxNewRows
     /\ last.date <= last.pre.end_date + MaxNewRows) =>
        /\ last.status = "ok"
        /\ start_date <= last.date /\ last.date <= end_date
        /\ GetOrCreateRow(sheet, start_date, end_date, last.date)
             = RowResult("ok", last.ret, sheet, start_date, end_date)

\* C4: get_or_create_row(d) with d more than 1000 days outside the range
\* fails and changes neither the grid nor the cached range.
C4_CapRefusesWithoutChange ==
    (/\ last.op = "_get_or_create_row"
     /\ \/ last.date < last.pre.start_date - MaxNewRows
        \/ last.date > last.pre.end_date + MaxNewRows) =>
        /\ last.status = "ValueError"
        /\ Unchanged

C4_Witness ==
    /\ last.op = "_get_or_create_row"
    /\ last.date = last.pre.end_date + MaxNewRows + 1
    /\ last.status = "ValueError"
    /\ calls = MaxCalls

\* rows first..first+length-1 are the one run of labels that parse; every
\* other data row holds a label that does not
SingleRun(sh, first, length) ==
    /\ first + length - 1 <= row_count(sh)
    /\ \A r \in DataRows(sh) :
           CanParse(Label(sh, r)) <=> (first <= r /\ r <= first + length - 1)

\* C5: when the labels hold a single run of parseable labels, rows R..R+L-1
\* starting with the date d0, and garbage elsewhere, then after fix_labels
\* the label of every data row r parses to d0 + (r - R) days and the labels
\* of the run are unchanged.
C5_FixLabelsRepairs ==
    last.op = "fix_labels" =>
        \A first \in DataRows(sheet), length \in 1..row_count(sheet) :
            SingleRun(last.pre.sheet, first, length) =>
                \A r \in DataRows(sheet) :
                    /\ CanParse(Label(sheet, r))
                    /\ ParseDate(Label(sheet, r))
                         = ParseDate(Label(last.pre.sheet, first)) + (r - first)
                    /\ (first <= r /\ r <= first + length - 1) =>
                           Label(sheet, r) = Label(last.pre.sheet, r)

\* C6: add_stat_series(X) called on the day T, with T - 1 inside, before or
\* after the range, followed by get_stat_start(X) returns T.
C6_AddThenStartIsToday ==
    (/\ last.op = "add_stat_series"
     /\ last.date - 1 >= last.pre.start_date - MaxNewRows
     /\ last.date - 1 <= last.pre.end_date + MaxNewRows) =>
        /\ last.status = "ok"
        /\ GetStatStart(sheet, start_date, stat_to_col, last.name)
             = [status |-> "ok", ret |-> last.date]

\* column col is headed name and holds the initializer in a data row
StartedIn(sh, name, col) ==
    /\ sh[LABEL_ROW][col] = name
    /\ \E r \in DataRows(sh) : sh[r][col] = INITIALIZER

FirstInitializer(sh, col) ==
    CHOOSE r \in DataRows(sh) :
        /\ sh[r][col] = INITIALIZER
        /\ \A q \in DataRows(sh) : sh[q][col] = INITIALIZER => r <= q

GapFree(entries) ==
    \A i \in 1..(Len(entries) - 1) : entries[i + 1].date = entries[i].date + 1

\* C7: after construction and any add_stat_series, get_or_create_row and
\* update_stat calls, get_stat_series(name) of a statistic whose column
\* holds the initializer returns entries one day apart, the first on the day
\* after the date of the initializer row, the last on the cached end_date.
C7_SeriesRunsToEnd ==
    last.op \in {"__init__", "add_stat_series", "_get_or_create_row",
                 "update_stat"} =>
        \A name \in DOMAIN stat_to_col :
            \A col \in DATA_START_COL..col_count(sheet) :
                StartedIn(sheet, name, col) =>
                    LET got == GetStatSeries(sheet, start_date, stat_to_col, name)
                        init_row == FirstInitializer(sheet, col)
                    IN  /\ got.status = "ok"
                        /\ GapFree(got.ret)
                        /\ got.ret # <<>> =>
                             /\ CanParse(Label(sheet, init_row))
                             /\ got.ret[1].date
                                  = ParseDate(Label(sheet, init_row)) + 1
                             /\ got.ret[Len(got.ret)].date = end_date

\* C8: update_stat(X, d, v) with X in the index and d in the range succeeds
\* and a following get_stat(X, d) returns v.
C8_UpdateThenGet ==
    (/\ last.op = "update_stat"
     /\ last.name \in DOMAIN last.pre.stat_to_col
     /\ InPreRange(last.date)) =>
        /\ last.status = "ok"
        /\ GetStat(sheet, start_date, end_date, stat_to_col,
                   last.name, last.date)
             = [status |-> "ok", ret |-> last.val]

\* C9: update_stat and get_stat fail for a name that is not in the index and
\* for a date outside the range, and then the grid, the cached range and the
\* index are what they were.
C9_RefusedWithoutChange ==
    (/\ last.op \in {"update_stat", "get_stat"}
     /\ \/ last.name \notin DOMAIN last.pre.stat_to_col
        \/ ~InPreRange(last.date)) =>
        /\ last.status = "ValueError"
        /\ Unchanged

C9_Witness ==
    /\ last.op = "update_stat"
    /\ last.name \in DOMAIN stat_to_col
    /\ last.date = end_date + 1
    /\ last.status = "ValueError"
    /\ calls = MaxCalls

\* C10: after construction and after add_stat_series calls, the header cell
\* of row 1 in column index[name] holds name, for every name of the index.
C10_IndexMatchesHeader ==
    last.op \in {"__init__", "add_stat_series"} =>
        \A name \in DOMAIN stat_to_col :
            /\ InGrid(sheet, LABEL_ROW, stat_to_col[name])
            /\ sheet[LABEL_ROW][stat_to_col[name]] = name

\* C11: add_stat_series(name) with a name that is already in the index
\* fails, and then no column is added, no cell is written and the index is
\* what it was.
C11_DuplicateRefused ==
    (/\ last.op = "add_stat_series"
     /\ last.name \in DOMAIN last.pre.stat_to_col) =>
        /\ last.status # "ok"
        /\ Unchanged

\* column col holds the initializer in a data row above the last row
MarkerAboveLastRow(sh, col) ==
    \E r \in DATA_START_ROW..(row_count(sh) - 1) : sh[r][col] = INITIALIZER

\* the columns of the grid headed name
ColumnsHeaded(sh, name) ==
    {c \in DATA_START_COL..col_count(sh) : sh[LABEL_ROW][c] = name}

\* C12: get_stat_start(name), for a name of the index that heads one column,
\* returns the date of the first entry of get_stat_series(name) when that
\* column holds the initializer above the last row, and fails when the
\* column holds no initializer or holds it in the last row only (the series
\* is empty).
C12_StartIsFirstOfSeries ==
    (/\ last.op = "get_stat_start"
     /\ last.name \in DOMAIN stat_to_col
     /\ Cardinality(ColumnsHeaded(sheet, last.name)) = 1) =>
        \A col \in ColumnsHeaded(sheet, last.name) :
            LET series == GetStatSeries(sheet, start_date, stat_to_col, last.name)
            IN  IF MarkerAboveLastRow(sheet, col)
                THEN /\ last.status = "ok"
                     /\ series.status = "ok"
                     /\ series.ret # <<>>
                     /\ last.ret = series.ret[1].date
                ELSE last.status # "ok"

\* the largest index of a non-empty text of the sequence, or 1
LargestUsed(values) ==
    LET used == {i \in 1..Len(values) : values[i] # EmptyText}
    IN  IF used = {} THEN 1 ELSE CHOOSE i \in used : \A j \in used : j <= i

\* C13: after the trim of construction, row_count is the largest row whose
\* column-1 cell is non-empty (or 1), col_count is the largest column whose
\* row-1 cell is non-empty (or 1), and every cell of the retained rectangle
\* holds the value it held.
C13_TrimKeepsUsedRectangle ==
    last.op \in {"_trim", "__init__"} =>
        /\ row_count(sheet)
             = LargestUsed(ColValues(last.pre.sheet, LABEL_COL))
        /\ col_count(sheet)
             = LargestUsed(RowValues(last.pre.sheet, LABEL_ROW))
        /\ \A r \in 1..row_count(sheet), c \in 1..col_count(sheet) :
               sheet[r][c] = last.pre.sheet[r][c]

C13_Witness ==
    /\ last.op = "_trim"
    /\ row_count(sheet) < row_count(last.pre.sheet)
    /\ col_count(sheet) < col_count(last.pre.sheet)
    /\ row_count(sheet) > 1
    /\ col_count(sheet) > 1
    /\ sheet[1][1] = EmptyText
    /\ sheet[2][2] # EmptyText
    /\ last.pre.sheet[row_count(last.pre.sheet)][col_count(last.pre.sheet)]
         # EmptyText

\* C14: get_or_create_row(d) with d before the range, g days before
\* start_date and g <= 1000, inserts g rows below the header; rows 2..g+1
\* hold the labels of d, d+1, ..., start_date - 1, the old row 2 is row g+2,
\* start_date is d, and the row returned is 2 and holds the label of d.
C14_PrependInsertsGap ==
    (/\ last.op = "_get_or_create_row"
     /\ last.date < last.pre.start_date
     /\ last.pre.start_date - last.date <= MaxNewRows) =>
        LET g == last.pre.start_date - last.date
        IN  /\ last.status = "ok"
            /\ row_count(sheet) = row_count(last.pre.sheet) + g
            /\ \A i \in 0..(g - 1) :
                   Label(sheet, DATA_START_ROW + i) = ToDateStr(last.date + i)
            /\ \A r \in DataRows(last.pre.sheet) :
                   sheet[r + g] = last.pre.sheet[r]
            /\ start_date = last.date
            /\ last.ret = DATA_START_ROW
            /\ Label(sheet, last.ret) = ToDateStr(last.date)

\* C15: get_or_create_row(d) with d after the range, g days after end_date
\* and g <= 1000, grows the grid by g rows, row old row_count + i holds the
\* label of old end_date + i days for i in 1..g, end_date is d, and the row
\* returned is the new last row and holds the label of d.
C15_AppendWritesGap ==
    (/\ last.op = "_get_or_create_row"
     /\ last.date > last.pre.end_date
     /\ last.date - last.pre.end_date <= MaxNewRows) =>
        LET g == last.date - last.pre.end_date
        IN  /\ last.status = "ok"
            /\ row_count(sheet) = row_count(last.pre.sheet) + g
            /\ \A i \in 1..g :
                   Label(sheet, row_count(last.pre.sheet) + i)
                     = ToDateStr(last.pre.end_date + i)
            /\ end_date = last.date
            /\ last.ret = row_count(sheet)
            /\ Label(sheet, last.ret) = ToDateStr(last.date)

\* rows first..final are a maximal run of labels that parse
IsRun(sh, first, final) ==
    /\ first <= final
    /\ \A r \in first..final : CanParse(Label(sh, r))
    /\ first = DATA_START_ROW \/ ~CanParse(Label(sh, first - 1))
    /\ final = row_count(sh) \/ ~CanParse(Label(sh, final + 1))

\* the run first..final is longer than every other run of the data rows
IsLongestRun(sh, first, final) ==
    /\ IsRun(sh, first, final)
    /\ \A f2, l2 \in DataRows(sh) :
           (IsRun(sh, f2, l2) /\ f2 # first) => l2 - f2 < final - first

\* C16: fix_labels anchors on the longest maximal run of parseable labels
\* among the data rows 2..row_count, a run from row 2 or up to the last row
\* included: every row before the run is relabelled with the date of the
\* run's first row less the distance in rows, every row after it with the
\* date of the run's last row plus the distance in rows.
C16_FixLabelsLongestRun ==
    last.op = "fix_labels" =>
        /\ last.status = "ok"
        /\ \A first, final \in DataRows(last.pre.sheet) :
               IsLongestRun(last.pre.sheet, first, final) =>
                   \A r \in DataRows(sheet) :
                       /\ r < first =>
                              Label(sheet, r)
                                = ToDateStr(ParseDate(Label(last.pre.sheet, first))
                                            - (first - r))
                       /\ r > final =>
                              Label(sheet, r)
                                = ToDateStr(ParseDate(Label(last.pre.sheet, final))
                                            + (r - final))

\* C17: after add_stat_series(name) called on the day T succeeds, the grid
\* has one more column, headed name, with the initializer in the row whose
\* label is T - 1 day and no value in any other data row of that column.
C17_AddedColumnHoldsMarker ==
    (last.op = "add_stat_series" /\ last.status = "ok") =>
        /\ col_count(sheet) = col_count(last.pre.sheet) + 1
        /\ sheet[LABEL_ROW][col_count(sheet)] = last.name
        /\ \E r \in DataRows(sheet) :
               /\ Label(sheet, r) = ToDateStr(last.date - 1)
               /\ sheet[r][col_count(sheet)] = INITIALIZER
               /\ \A q \in DataRows(sheet) \ {r} :
                      sheet[q][col_count(sheet)] = EmptyText

\* C18: a get_or_create_row(d') call that extends the range and succeeds
\* loses no data: for every name of the index and every date d of the range
\* before the call, get_stat(name, d) gives the value it gave before, from a
\* row whose label is d.
C18_ExtensionKeepsData ==
    (/\ last.op = "_get_or_create_row"
     /\ ~InPreRange(last.date)
     /\ last.status = "ok") =>
        \A name \in DOMAIN last.pre.stat_to_col :
            \A d \in last.pre.start_date..last.pre.end_date :
                LET before == GetStat(last.pre.sheet, last.pre.start_date,
                                      last.pre.end_date, last.pre.stat_to_col,
                                      name, d)
                    after == GetStat(sheet, start_date, end_date, stat_to_col,
                                     name, d)
                IN  before.status = "ok" =>
                        /\ after.status = "ok"
                        /\ after.ret.value = before.ret.value
                        /\ Label(sheet, after.ret.row) = ToDateStr(d)

\* C19: update_stat(name, d, v) with name in the index and d in the range
\* changes one cell, in the row whose label is d and the column whose header
\* is name; every other cell, the size of the grid, the index and the cached
\* range are what they were.
C19_UpdateChangesOneCell ==
    (/\ last.op = "update_stat"
     /\ last.name \in DOMAIN last.pre.stat_to_col
     /\ InPreRange(last.date)) =>
        /\ row_count(sheet) = row_count(last.pre.sheet)
        /\ col_count(sheet) = col_count(last.pre.sheet)
        /\ stat_to_col = last.pre.stat_to_col
        /\ start_date = last.pre.start_date
        /\ end_date = last.pre.end_date
        /\ \E r \in DataRows(sheet), c \in DATA_START_COL..col_count(sheet) :
               /\ Label(last.pre.sheet, r) = ToDateStr(last.date)
               /\ last.pre.sheet[LABEL_ROW][c] = last.name
               /\ sheet[r][c] = last.val
               /\ \A rr \in 1..row_count(sheet), cc \in 1..col_count(sheet) :
                      (rr # r \/ cc # c) => sheet[rr][cc] = last.pre.sheet[rr][cc]

\* C20: add_stat_series called when yesterday lies more than 1000 days
\* outside the range fails and leaves no new column, no header cell and no
\* new name in the index.
C20_CapLeavesNoColumn ==
    (/\ last.op = "add_stat_series"
     /\ \/ last.date - 1 < last.pre.start_date - MaxNewRows
        \/ last.date - 1 > last.pre.end_date + MaxNewRows) =>
        /\ last.status = "ValueError"
        /\ sheet = last.pre.sheet
        /\ stat_to_col = last.pre.stat_to_col

====
